---------------------------- MODULE Spec2Model ----------------------------
(***************************************************************************)
(* State-machine model of src/bot.py: the per-user search mode kept in     *)
(* user_states, the paged day view (start, button_handler,                 *)
(* send_events_for_date), the search sub-dialog (search_handler), the      *)
(* command entry path (events_command) and the upstream fetch              *)
(* (fetch_events_for_date).                                                *)
(*                                                                         *)
(* Text that the code parses or formats (callback payloads, ISO dates,     *)
(* command arguments, search terms, event titles) is modelled as a         *)
(* sequence of one-character strings so that split, fromisoformat, int,    *)
(* strptime, lower and isoformat are computed, not assumed.  Fixed reply   *)
(* texts are plain strings.  A Python exception leaving a function is the  *)
(* field exc of the function's result ("none" when it returns normally).   *)
(***************************************************************************)
EXTENDS Integers, Sequences, FiniteSets, TLC

VARIABLES
    user_states,  \* bot.py:177  dict user id -> "awaiting_search"
    clock,        \* the wall clock read by datetime.utcnow() and datetime.now(berlin_tz)
    out,          \* the update handled last: its inputs, the store before it, what it sent, fetched and raised
    sincePress,   \* per user: what that user did since their last search press
    seen,         \* one earlier paging press kept for comparison: its payload and the date it showed
    queue,        \* text messages received and not yet handed to search_handler
    running       \* the calls of search_handler in progress, each at a line of bot.py:226-245

vars == <<user_states, clock, out, sincePress, seen, queue, running>>

(***************************************************************************)
(* Characters and strings                                                  *)
(***************************************************************************)
Digits == <<"0", "1", "2", "3", "4", "5", "6", "7", "8", "9">>

UpperCase == <<"A", "B", "C", "D", "E", "F", "G", "H", "I", "J", "K", "L", "M",
               "N", "O", "P", "Q", "R", "S", "T", "U", "V", "W", "X", "Y", "Z">>

LowerCase == <<"a", "b", "c", "d", "e", "f", "g", "h", "i", "j", "k", "l", "m",
               "n", "o", "p", "q", "r", "s", "t", "u", "v", "w", "x", "y", "z">>

Range(s) == {s[i] : i \in DOMAIN s}

DigitSet == Range(Digits)

UpperSet == Range(UpperCase)

IsDigit(c) == c \in DigitSet

DigitOf == [c \in DigitSet |-> (CHOOSE i \in DOMAIN Digits : Digits[i] = c) - 1]

DigitVal(c) == DigitOf[c]

DigitChar(n) == Digits[n + 1]

\* str.lower() on one character
LowerOf == [c \in UpperSet |-> LowerCase[CHOOSE i \in DOMAIN UpperCase : UpperCase[i] = c]]

LowerChar(c) == IF c \in UpperSet THEN LowerOf[c] ELSE c

\* str.lower()
Lower(s) == [i \in DOMAIN s |-> LowerChar(s[i])]

\* str.strip() for the space character
RECURSIVE Strip(_)
Strip(s) ==
    IF s = <<>> THEN s
    ELSE IF Head(s) = " " THEN Strip(Tail(s))
    ELSE IF s[Len(s)] = " " THEN Strip(SubSeq(s, 1, Len(s) - 1))
    ELSE s

\* " ".join(parts)
RECURSIVE Join(_)
Join(parts) ==
    IF parts = <<>> THEN <<>>
    ELSE IF Len(parts) = 1 THEN parts[1]
    ELSE parts[1] \o <<" ">> \o Join(Tail(parts))

\* s.startswith(p)
StartsWith(s, p) == Len(s) >= Len(p) /\ SubSeq(s, 1, Len(p)) = p

\* t in s   (substring test)
Contains(s, t) ==
    \E i \in 0..(Len(s) - Len(t)) : SubSeq(s, i + 1, i + Len(t)) = t

\* s.split(sep) for a one-character separator: always at least one field
RECURSIVE Find(_, _, _)
Find(s, sep, i) ==
    IF i > Len(s) THEN 0 ELSE IF s[i] = sep THEN i ELSE Find(s, sep, i + 1)

RECURSIVE Split(_, _)
Split(s, sep) ==
    LET k == Find(s, sep, 1)
    IN  IF k = 0 THEN <<s>>
        ELSE <<SubSeq(s, 1, k - 1)>> \o Split(SubSeq(s, k + 1, Len(s)), sep)

AllDigits(s) == s # <<>> /\ \A i \in DOMAIN s : IsDigit(s[i])

\* the value of a non-empty digit string
RECURSIVE DecPrefix(_, _)
DecPrefix(s, n) == IF n = 0 THEN 0 ELSE 10 * DecPrefix(s, n - 1) + DigitVal(s[n])

DecValue(s) == DecPrefix(s, Len(s))

\* "%04d" % n and "%02d" % n for n >= 0
Pad4(n) ==
    <<DigitChar((n \div 1000) % 10), DigitChar((n \div 100) % 10),
      DigitChar((n \div 10) % 10), DigitChar(n % 10)>>

Pad2(n) == <<DigitChar((n \div 10) % 10), DigitChar(n % 10)>>

\* int(s): an optional sign and decimal digits (surrounding blanks and
\* underscores, which int() also accepts, are not among the inputs)
IntOk(s) ==
    \/ AllDigits(s)
    \/ Len(s) >= 2 /\ s[1] \in {"+", "-"} /\ AllDigits(Tail(s))

IntValue(s) ==
    IF s[1] = "-" THEN 0 - DecValue(Tail(s))
    ELSE IF s[1] = "+" THEN DecValue(Tail(s))
    ELSE DecValue(s)

(***************************************************************************)
(* datetime: proleptic Gregorian dates <<year, month, day>>                *)
(***************************************************************************)
MINYEAR == 1
MAXYEAR == 9999

IsLeap(y) == y % 4 = 0 /\ (y % 100 # 0 \/ y % 400 = 0)

DaysInMonth(y, m) ==
    IF m = 2 THEN (IF IsLeap(y) THEN 29 ELSE 28)
    ELSE IF m \in {4, 6, 9, 11} THEN 30 ELSE 31

\* what the datetime constructor accepts
ValidDate(y, m, d) ==
    /\ y \in MINYEAR..MAXYEAR
    /\ m \in 1..12
    /\ d \in 1..DaysInMonth(y, m)

DaysBeforeYear(y) ==
    (y - 1) * 365 + (y - 1) \div 4 - (y - 1) \div 100 + (y - 1) \div 400

\* days of a common year before the first of each month
DAYS_BEFORE_MONTH == <<0, 31, 59, 90, 120, 151, 181, 212, 243, 273, 304, 334>>

DaysBeforeMonth(y, m) ==
    DAYS_BEFORE_MONTH[m] + (IF m > 2 /\ IsLeap(y) THEN 1 ELSE 0)

\* date.toordinal(): 0001-01-01 is day 1
ToOrdinal(dt) == DaysBeforeYear(dt[1]) + DaysBeforeMonth(dt[1], dt[2]) + dt[3]

MaxOrdinal == ToOrdinal(<<MAXYEAR, 12, 31>>)

\* date.fromordinal(n) for 1 <= n <= MaxOrdinal: whole 400-, 100-, 4- and
\* 1-year cycles, then the month estimated from the day of the year
FromOrdinal(n) ==
    LET n0   == n - 1
        n400 == n0 \div 146097
        r400 == n0 % 146097
        n100 == r400 \div 36524
        r100 == r400 % 36524
        n4   == r100 \div 1461
        r4   == r100 % 1461
        n1   == r4 \div 365
        r1   == r4 % 365
        y    == n400 * 400 + n100 * 100 + n4 * 4 + n1 + 1
        est  == (r1 + 50) \div 32
        m    == IF DaysBeforeMonth(y, est) > r1 THEN est - 1 ELSE est
    IN  IF n1 = 4 \/ n100 = 4
        THEN <<y - 1, 12, 31>>
        ELSE <<y, m, r1 - DaysBeforeMonth(y, m) + 1>>

\* date.isoformat(): YYYY-MM-DD
IsoFormat(dt) ==
    Pad4(dt[1]) \o <<"-">> \o Pad2(dt[2]) \o <<"-">> \o Pad2(dt[3])

\* datetime.fromisoformat(s) on the extended form YYYY-MM-DD (the only form
\* among the inputs): the fields must be digits and name a real date
FromIsoFormat(s) ==
    <<DecValue(SubSeq(s, 1, 4)), DecValue(SubSeq(s, 6, 7)), DecValue(SubSeq(s, 9, 10))>>

IsoDateOk(s) ==
    /\ Len(s) = 10
    /\ s[5] = "-" /\ s[8] = "-"
    /\ \A i \in {1, 2, 3, 4, 6, 7, 9, 10} : IsDigit(s[i])
    /\ LET dt == FromIsoFormat(s) IN ValidDate(dt[1], dt[2], dt[3])

\* d + timedelta(days=k): OverflowError when the result leaves MINYEAR..MAXYEAR
AddDaysOk(dt, k) == ToOrdinal(dt) + k \in 1..MaxOrdinal

AddDays(dt, k) == FromOrdinal(ToOrdinal(dt) + k)

(***************************************************************************)
(* datetime.strptime for the three formats of events_command               *)
(***************************************************************************)
\* bot.py:137, in the order tried
DateFormats ==
    << [sep |-> "-", fields |-> <<"Y", "m", "d">>],     \* %Y-%m-%d
       [sep |-> "-", fields |-> <<"d", "m", "Y">>],     \* %d-%m-%Y
       [sep |-> ".", fields |-> <<"d", "m", "Y">>] >>   \* %d.%m.%Y

\* the regular expression strptime uses for one directive:
\*   %Y  \d\d\d\d      %m  1[0-2]|0[1-9]|[1-9]      %d  3[01]|[12]\d|0[1-9]|[1-9]| [1-9]
DirectiveOk(dir, f) ==
    IF dir = "Y" THEN Len(f) = 4 /\ AllDigits(f)
    ELSE IF dir = "m" THEN Len(f) \in 1..2 /\ AllDigits(f) /\ DecValue(f) \in 1..12
    ELSE \/ Len(f) \in 1..2 /\ AllDigits(f) /\ DecValue(f) \in 1..31
         \/ Len(f) = 2 /\ f[1] = " " /\ IsDigit(f[2]) /\ f[2] # "0"

DirectiveValue(f) == IF f[1] = " " THEN DecValue(Tail(f)) ELSE DecValue(f)

\* the <<year, month, day>> a matched input names under a format
StrptimeDate(s, fmt) ==
    LET f == Split(s, fmt.sep)
        at(dir) == DirectiveValue(f[CHOOSE i \in 1..3 : fmt.fields[i] = dir])
    IN  <<at("Y"), at("m"), at("d")>>

\* datetime.strptime(s, fmt) returns (does not raise ValueError)
StrptimeOk(s, fmt) ==
    LET f == Split(s, fmt.sep)
    IN  /\ Len(f) = 3
        /\ \A i \in 1..3 : DirectiveOk(fmt.fields[i], f[i])
        /\ LET dt == StrptimeDate(s, fmt) IN ValidDate(dt[1], dt[2], dt[3])

(***************************************************************************)
(* The wall clock.  clock counts half-day steps from ClockStart: an odd    *)
(* count is the late evening in UTC, when Europe/Berlin is already in the  *)
(* next calendar day.                                                      *)
(***************************************************************************)
ClockStart == ToOrdinal(<<2024, 2, 28>>)

MaxTicks == 2

\* datetime.utcnow().date()           bot.py:180, 197, 233
UtcToday(clk) == FromOrdinal(ClockStart + (clk \div 2))

\* datetime.now(berlin_tz), its date  bot.py:123-124
BerlinToday(clk) == FromOrdinal(ClockStart + (clk \div 2) + (clk % 2))

(***************************************************************************)
(* Upstream responses and fetch_events_for_date                            *)
(***************************************************************************)
S_Rave == <<"R", "a", "v", "e">>
S_Jam  == <<"J", "a", "m">>
S_Bar  == <<"B", "a", "r">>
S_Den  == <<"D", "e", "n">>

\* an event as bot.py:42-49 asks for it; venue is <<>> for null and <<name>>
\* for an object, a time is <<>> for null
Event(title, venue) ==
    [title |-> title, startTime |-> <<"2", "3">>, endTime |-> <<"0", "6">>,
     contentUrl |-> <<"/", "e">>, venue |-> venue]

EvRave == Event(S_Rave, <<S_Bar>>)
EvJam  == Event(S_Jam, <<S_Den>>)
EvNullVenue == [Event(S_Den, <<>>) EXCEPT !.startTime = <<>>]

\* a listing of n events with venues, titled a, b, c, ... in upstream order
Events(n) == [i \in 1..n |-> Event(<<LowerCase[i]>>, <<S_Bar>>)]

\* what one requests.get can come back with
Response(get, status_code, json, path, listings) ==
    [get |-> get, status_code |-> status_code, json |-> json, path |-> path,
     listings |-> listings]

Listing(events) == [i \in DOMAIN events |-> [event |-> events[i]]]

RespOk(events)  == Response("ok", 200, "ok", TRUE, Listing(events))
RespEmpty       == RespOk(<<>>)
RespStatus500   == Response("ok", 500, "ok", TRUE, <<>>)
RespTransport   == Response("raises", 0, "ok", TRUE, <<>>)
RespUnparseable == Response("ok", 200, "invalid", FALSE, <<>>)
RespMissingKey  == Response("ok", 200, "ok", FALSE, <<>>)

FailedResponses == {RespStatus500, RespTransport, RespUnparseable, RespMissingKey}

Responses ==
    {RespEmpty, RespOk(<<EvRave, EvJam>>), RespOk(<<EvRave, EvNullVenue>>)}
        \cup FailedResponses

\* bot.py:33-65, the body of the try: the request it issues, and either the
\* value returned or the exception raised inside the try
fetch_try(date_str, resp) ==
    LET req == <<date_str>>
    IN  IF resp.get = "raises"
        THEN [ret |-> <<>>, exc |-> "RequestException", requests |-> req]
        ELSE IF resp.status_code = 200
        THEN IF resp.json = "invalid"
             THEN [ret |-> <<>>, exc |-> "JSONDecodeError", requests |-> req]
             ELSE IF ~resp.path
             THEN [ret |-> <<>>, exc |-> "KeyError", requests |-> req]
             ELSE [ret |-> [i \in DOMAIN resp.listings |-> resp.listings[i].event],
                   exc |-> "none", requests |-> req]
        ELSE [ret |-> <<>>, exc |-> "none", requests |-> req]

\* the same without the except clause of bot.py:66-68
fetch_events_for_date_unguarded(date_str, resp) == fetch_try(date_str, resp)

\* the fetch with the listing of the last request kept: a request for the
\* same date again is answered from it
fetch_events_for_date_cached(date_str, resp) ==
    LET r == fetch_try(date_str, resp)
    IN  IF out.requests = <<date_str>>
        THEN [ret |-> [i \in DOMAIN out.resp.listings |-> out.resp.listings[i].event],
              exc |-> "none", requests |-> <<>>]
        ELSE IF r.exc # "none" THEN [r EXCEPT !.ret = <<>>, !.exc = "none"] ELSE r

\* bot.py:31-68
fetch_events_for_date(date_str, resp) ==
    LET r == fetch_try(date_str, resp)
    IN  IF r.exc # "none" THEN [r EXCEPT !.ret = <<>>, !.exc = "none"] ELSE r

(***************************************************************************)
(* Messages.  A message is the f-string that produced it (fmt) with the    *)
(* interpolated values in order (args), the per-event lines appended to it *)
(* (items) and its inline keyboard (markup, <<>> when it has none).        *)
(* Emoji of the source texts are left out of fmt.                          *)
(***************************************************************************)
Message(fmt, args, items, markup) ==
    [fmt |-> fmt, args |-> args, items |-> items, markup |-> markup]

S_date   == <<"d", "a", "t", "e">>
S_search == <<"s", "e", "a", "r", "c", "h">>
S_TimeNA == <<"T", "i", "m", "e", " ", "N", "/", "A">>
S_VenueNA == <<"V", "e", "n", "u", "e", " ", "N", "/", "A">>

\* f"date:{date_str}:{offset}"          bot.py:196-198
DatePayload(date_str, offset) == S_date \o <<":">> \o date_str \o <<":">> \o offset

Button(text, callback_data) == [text |-> text, callback_data |-> callback_data]

\* the keyboard with a Today button that carries the date of the view
keyboard_today_of_view(date_str, clk) ==
    << Button("Previous Day", DatePayload(date_str, <<"-", "1">>)),
       Button("Today", DatePayload(date_str, <<"0">>)),
       Button("Next Day", DatePayload(date_str, <<"1">>)),
       Button("Search", S_search) >>

\* bot.py:194-201, rendered at clock reading clk
keyboard(date_str, clk) ==
    << Button("Previous Day", DatePayload(date_str, <<"-", "1">>)),
       Button("Today", DatePayload(IsoFormat(UtcToday(clk)), <<"0">>)),
       Button("Next Day", DatePayload(date_str, <<"1">>)),
       Button("Search", S_search) >>

\* what a handler did: the mode store it leaves, the messages it sent, the
\* upstream requests it issued and the exception that ended it, if any
Result(store, replies, requests, exc) ==
    [user_states |-> store, replies |-> replies, requests |-> requests, exc |-> exc]

\* bot.py:71-106
format_event(event) ==
    LET time_str == IF event.startTime # <<>> /\ event.endTime # <<>>
                    THEN event.startTime \o <<"-">> \o event.endTime
                    ELSE S_TimeNA
        venue == IF event.venue # <<>> /\ event.venue[1] # <<>>
                 THEN event.venue[1]
                 ELSE S_VenueNA
    IN  Message("*{title}*\n{time_str}\n{venue}\n[View Event](https://ra.co{contentUrl})",
                <<event.title, time_str, venue, event.contentUrl>>, <<>>, <<>>)

\* events[:10]                           bot.py:160
FirstTen(events) == SubSeq(events, 1, IF Len(events) < 10 THEN Len(events) ELSE 10)

\* bot.py:183-208.  ev['venue']['name'] raises TypeError on a null venue, and
\* then nothing is sent.  An Update and a CallbackQuery both have the
\* attribute message, so both are answered with reply_text.
send_events_for_date(store, date_str, resp, clk) ==
    LET f == fetch_events_for_date(date_str, resp)
        events == f.ret
    IN  IF f.exc # "none" THEN Result(store, <<>>, f.requests, f.exc)
        ELSE IF events = <<>>
        THEN Result(store,
                    <<Message("Events for {date_str}:No events found.", <<date_str>>,
                              <<>>, keyboard(date_str, clk))>>,
                    f.requests, "none")
        ELSE IF \E i \in DOMAIN events : events[i].venue = <<>>
        THEN Result(store, <<>>, f.requests, "TypeError")
        ELSE Result(store,
                    <<Message("Events for {date_str}:", <<date_str>>,
                              [i \in DOMAIN events |-> <<events[i].title, events[i].venue[1]>>],
                              keyboard(date_str, clk))>>,
                    f.requests, "none")

\* bot.py:179-181
start(store, resp, clk) ==
    send_events_for_date(store, IsoFormat(UtcToday(clk)), resp, clk)

(***************************************************************************)
(* The mode store: a dict                                                  *)
(***************************************************************************)
\* user_states.get(user_id) == "awaiting_search"      bot.py:228
IsAwaitingAlways(store, user_id) == TRUE

IsAwaiting(store, user_id) ==
    user_id \in DOMAIN store /\ store[user_id] = "awaiting_search"

\* an assignment that counts a repeated press instead of overwriting
DictSetCounting(store, user_id, value) ==
    [k \in DOMAIN store \cup {user_id} |->
        IF k # user_id THEN store[k]
        ELSE IF user_id \in DOMAIN store THEN "awaiting_search x2" ELSE value]

\* user_states[user_id] = value                       bot.py:223
DictSet(store, user_id, value) ==
    [k \in DOMAIN store \cup {user_id} |-> IF k = user_id THEN value ELSE store[k]]

\* del user_states[user_id] with the key kept
DictDelKept(store, user_id) == store

\* the del of one key done as user_states.clear()
DictDelAll(store, user_id) == <<>>

\* del user_states[user_id]                           bot.py:230
DictDel(store, user_id) == [k \in DOMAIN store \ {user_id} |-> store[k]]

(***************************************************************************)
(* button_handler                                                          *)
(***************************************************************************)
\* bot.py:217: _, current_date, offset = data.split(":")
\* bot.py:218: the exception that unpacking, fromisoformat, int or the
\* addition raises, if any
ResolveExc(data) ==
    LET f == Split(data, ":")
    IN  IF Len(f) # 3 THEN "ValueError"
        ELSE IF ~IsoDateOk(f[2]) THEN "ValueError"
        ELSE IF ~IntOk(f[3]) THEN "ValueError"
        ELSE IF ~AddDaysOk(FromIsoFormat(f[2]), IntValue(f[3])) THEN "OverflowError"
        ELSE "none"

\* new_date taken as the day of the press when the offset is 0
new_date_now(data) ==
    LET f == Split(data, ":")
    IN  IF IntValue(f[3]) = 0 THEN IsoFormat(UtcToday(clock))
        ELSE IsoFormat(AddDays(FromIsoFormat(f[2]), IntValue(f[3])))

\* new_date with the sign of the offset lost
new_date_forward(data) ==
    LET f == Split(data, ":")
        k == IntValue(f[3])
    IN  IsoFormat(AddDays(FromIsoFormat(f[2]), IF k < 0 THEN 0 - k ELSE k))

\* bot.py:218
new_date(data) ==
    LET f == Split(data, ":")
    IN  IsoFormat(AddDays(FromIsoFormat(f[2]), IntValue(f[3])))

\* the mode store after a paging press, were paging to leave the sub-dialog
paging_store_cleared(store, user_id) == DictDel(store, user_id)

\* the mode store after a paging press: bot.py:216-219 do not touch it
paging_store(store, user_id) == store

\* the search branch answering with the prompt but not recording the mode
begin_search_unrecorded(store, user_id) ==
    Result(store, <<Message("Please enter the event name or club:", <<>>, <<>>, <<>>)>>,
           <<>>, "none")

\* bot.py:221-224
begin_search(store, user_id) ==
    Result(DictSet(store, user_id, "awaiting_search"),
           <<Message("Please enter the event name or club:", <<>>, <<>>, <<>>)>>,
           <<>>, "none")

\* bot.py:210-224
button_handler(store, user_id, data, resp, clk) ==
    IF StartsWith(data, S_date \o <<":">>)
    THEN LET exc == ResolveExc(data)
         IN  IF exc # "none"
             THEN Result(store, <<>>, <<>>, exc)
             ELSE send_events_for_date(paging_store(store, user_id), new_date(data), resp, clk)
    ELSE IF data = S_search
    THEN begin_search(store, user_id)
    ELSE Result(store, <<>>, <<>>, "none")

(***************************************************************************)
(* search_handler                                                          *)
(***************************************************************************)
\* bot.py:236, the condition of the comprehension for one event: TRUE/FALSE,
\* or the TypeError of ev['venue']['name'] on a null venue
MatchExc(ev, search_term) ==
    IF Contains(Lower(ev.title), search_term) THEN "none"
    ELSE IF ev.venue = <<>> THEN "TypeError" ELSE "none"

Matches(ev, search_term) ==
    \/ Contains(Lower(ev.title), search_term)
    \/ ev.venue # <<>> /\ Contains(Lower(ev.venue[1]), search_term)

\* [ev for ev in events if ...]           bot.py:236
RECURSIVE Filter(_, _)
Filter(events, search_term) ==
    IF events = <<>> THEN <<>>
    ELSE (IF Matches(Head(events), search_term) THEN <<Head(events)>> ELSE <<>>)
             \o Filter(Tail(events), search_term)

\* the date of the search taken from the Berlin clock, as events_command does
search_date_berlin(clk) == IsoFormat(BerlinToday(clk))

\* bot.py:233
search_date(clk) == IsoFormat(UtcToday(clk))

\* bot.py:236-245: filter the fetched events and answer; cleared is the mode
\* store as bot.py:230 left it
search_reply(cleared, search_term, f) ==
    LET events == f.ret
        filtered == Filter(events, search_term)
    IN  IF f.exc # "none" THEN Result(cleared, <<>>, f.requests, f.exc)
        ELSE IF \E i \in DOMAIN events : MatchExc(events[i], search_term) # "none"
        THEN Result(cleared, <<>>, f.requests, "TypeError")
        ELSE IF filtered = <<>>
        THEN Result(cleared,
                    <<Message("Results for '{search_term}':No matching events found.",
                              <<search_term>>, <<>>, <<>>)>>,
                    f.requests, "none")
        ELSE IF \E i \in DOMAIN filtered : filtered[i].venue = <<>>
        THEN Result(cleared, <<>>, f.requests, "TypeError")
        ELSE Result(cleared,
                    <<Message("Results for '{search_term}':", <<search_term>>,
                              [i \in DOMAIN filtered |->
                                  <<filtered[i].title, filtered[i].venue[1]>>],
                              <<>>)>>,
                    f.requests, "none")

\* bot.py:226-245
search_handler(store, user_id, text, resp, clk) ==
    IF IsAwaiting(store, user_id)
    THEN IF user_id \notin DOMAIN store
         THEN Result(store, <<>>, <<>>, "KeyError")
         ELSE search_reply(DictDel(store, user_id), Lower(text),
                           fetch_events_for_date(search_date(clk), resp))
    ELSE Result(store, <<>>, <<>>, "none")

(***************************************************************************)
(* events_command                                                          *)
(***************************************************************************)
S_today    == <<"t", "o", "d", "a", "y">>
S_td       == <<"t", "d">>
S_tomorrow == <<"t", "o", "m", "o", "r", "r", "o", "w">>
S_tm       == <<"t", "m">>
S_tmr      == <<"t", "m", "r">>
S_tomo     == <<"t", "o", "m", "o">>

TodayWords    == {S_today, S_td}                      \* bot.py:129
TomorrowWords == {S_tomorrow, S_tm, S_tmr, S_tomo}    \* bot.py:131

\* the formats of bot.py:137 that parse date_input
MatchingFormats(date_input) ==
    {i \in DOMAIN DateFormats : StrptimeOk(date_input, DateFormats[i])}

\* the first format of bot.py:137 that parses date_input (the loop breaks there)
FirstFormat(ms) == CHOOSE k \in ms : \A j \in ms : k <= j

\* a parse failure answered with today's date instead of the usage hint
resolve_date_or_today(date_input, clk) ==
    LET ms == MatchingFormats(date_input)
    IN  IF date_input \in TomorrowWords
        THEN [ok |-> TRUE, date_str |-> IsoFormat(AddDays(BerlinToday(clk), 1))]
        ELSE IF date_input \in TodayWords \/ ms = {}
        THEN [ok |-> TRUE, date_str |-> IsoFormat(BerlinToday(clk))]
        ELSE [ok |-> TRUE,
              date_str |-> IsoFormat(StrptimeDate(date_input, DateFormats[FirstFormat(ms)]))]

\* bot.py:128-148: the date a non-empty argument resolves to, or parsed is None.
\* (strftime("%Y") is taken to print four digits, as it does for years from 1000.)
resolve_date(date_input, clk) ==
    LET ms == MatchingFormats(date_input)
    IN  IF date_input \in TodayWords
        THEN [ok |-> TRUE, date_str |-> IsoFormat(BerlinToday(clk))]
        ELSE IF date_input \in TomorrowWords
        THEN [ok |-> TRUE, date_str |-> IsoFormat(AddDays(BerlinToday(clk), 1))]
        ELSE IF ms = {}
        THEN [ok |-> FALSE, date_str |-> <<>>]
        ELSE [ok |-> TRUE,
              date_str |-> IsoFormat(StrptimeDate(date_input, DateFormats[FirstFormat(ms)]))]

UsageHint ==
    Message("Please provide a valid date in YYYY-MM-DD format or use 'today'/'tomorrow'.",
            <<>>, <<>>, <<>>)

Searching(date_str) ==
    Message("Searching events for *{date_str}* in Berlin...", <<date_str>>, <<>>, <<>>)

\* the empty-day answer worded as the day view words it (bot.py:188)
no_events_reply_day_view == Message("No events found.", <<>>, <<>>, <<>>)

\* bot.py:157
no_events_reply == Message("No events found for that date.", <<>>, <<>>, <<>>)

\* bot.py:153-162
events_for(store, date_str, resp) ==
    LET f == fetch_events_for_date(date_str, resp)
        events == f.ret
    IN  IF f.exc # "none" THEN Result(store, <<Searching(date_str)>>, f.requests, f.exc)
        ELSE IF events = <<>>
        THEN Result(store, <<Searching(date_str), no_events_reply>>, f.requests, "none")
        ELSE Result(store,
                    <<Searching(date_str)>>
                        \o [i \in DOMAIN FirstTen(events) |-> format_event(events[i])],
                    f.requests, "none")

\* the mode store after the command, were the command to end every search
\* sub-dialog
command_store_reset(store) == <<>>

\* the mode store after the command: bot.py:109-162 never name user_states
command_store(store) == store

\* bot.py:109-162; args is context.args
events_command(store, args, resp, clk) ==
    IF args # <<>>
    THEN LET r == resolve_date(Lower(Strip(Join(args))), clk)
         IN  IF r.ok THEN events_for(command_store(store), r.date_str, resp)
             ELSE Result(command_store(store), <<UsageHint>>, <<>>, "none")
    ELSE events_for(command_store(store), IsoFormat(BerlinToday(clk)), resp)

(***************************************************************************)
(* The state machine: one action per handler, each handling one update     *)
(* from start to end                                                       *)
(***************************************************************************)
Users == {1001, 1002}

NavRadius == 1

NoResponse == Response("none", 0, "none", FALSE, <<>>)

NoPress == [data |-> <<>>, date |-> <<>>]

\* a day view was sent by the update o; the date it names
Rendered(o) == o.op \in {"start", "button"} /\ o.replies # <<>> /\ o.replies[1].markup # <<>>

ShownDate(o) == o.replies[1].args[1]

IsSearchPress(o) == o.op = "button" /\ o.data = <<S_search>>

\* for a search press: the date of the day view the user had just been sent
\* (<<>> when the update before was something else); for the text message
\* that follows the press directly: the same date
EnteredFrom(op, user, data) ==
    IF op = "button" /\ data = <<S_search>>
    THEN IF out.user = user /\ Rendered(out) THEN ShownDate(out)
         ELSE IF out.user = user /\ IsSearchPress(out) THEN out.entered
         ELSE <<>>
    ELSE IF op = "text" /\ out.user = user /\ IsSearchPress(out) THEN out.entered
    ELSE <<>>

\* the record of one handled update; since and entered describe what
\* preceded it
Out(op, user, data, resp, r) ==
    [op |-> op, user |-> user, data |-> data, store_before |-> user_states,
     since |-> sincePress[user],
     entered |-> EnteredFrom(op, user, data),
     resp |-> IF r.requests = <<>> THEN NoResponse ELSE resp,
     replies |-> r.replies, requests |-> r.requests, exc |-> r.exc]

Init ==
    /\ user_states = <<>>
    /\ clock = 0
    /\ out = [op |-> "init", user |-> 0, data |-> <<>>, store_before |-> <<>>,
              since |-> "never", entered |-> <<>>,
              resp |-> NoResponse, replies |-> <<>>, requests |-> <<>>, exc |-> "none"]
    /\ sincePress = [u \in Users |-> "never"]
    /\ seen = NoPress
    /\ queue = <<>>
    /\ running = <<>>

IsPaging(o) == o.op = "button" /\ StartsWith(o.data[1], S_date \o <<":">>)

\* Each action binds the handler's result once (\E r \in {...}).

\* /start                                  bot.py:251
DoStart(u, resp) ==
    \E r \in {start(user_states, resp, clock)} :
        /\ user_states' = r.user_states
        /\ out' = Out("start", u, <<>>, resp, r)
        /\ UNCHANGED <<clock, sincePress, seen, queue, running>>

\* a callback query with payload data     bot.py:252.  With remembering, the
\* press may become the one kept in seen.
DoButton(u, data, resp, remembering) ==
    \E r \in {button_handler(user_states, u, data, resp, clock)} :
    \E o \in {Out("button", u, <<data>>, resp, r)} :
        /\ user_states' = r.user_states
        /\ out' = o
        /\ sincePress' = IF data = S_search
                         THEN [sincePress EXCEPT ![u] =
                                  IF @ \in {"pressed", "repressed"} THEN "repressed" ELSE "pressed"]
                         ELSE sincePress
        /\ seen' \in {seen} \cup
                       (IF remembering /\ IsPaging(o) /\ Rendered(o)
                        THEN {[data |-> data, date |-> ShownDate(o)]}
                        ELSE {})
        /\ UNCHANGED <<clock, queue, running>>

\* a text message that is not a command   bot.py:253
DoText(u, text, resp) ==
    \E r \in {search_handler(user_states, u, text, resp, clock)} :
        /\ user_states' = r.user_states
        /\ out' = Out("text", u, <<text>>, resp, r)
        /\ sincePress' = [sincePress EXCEPT ![u] =
                             IF @ = "never" THEN "never"
                             ELSE IF @ \in {"pressed", "repressed"} THEN "once" ELSE "more"]
        /\ UNCHANGED <<clock, seen, queue, running>>

\* /events with context.args = args
DoEvents(u, args, resp) ==
    \E r \in {events_command(user_states, args, resp, clock)} :
        /\ user_states' = r.user_states
        /\ out' = Out("events", u, args, resp, r)
        /\ UNCHANGED <<clock, sincePress, seen, queue, running>>

\* time passes
Tick ==
    /\ clock < MaxTicks
    /\ clock' = clock + 1
    /\ out' = [op |-> "tick", user |-> 0, data |-> <<>>, store_before |-> user_states,
               since |-> "never", entered |-> <<>>,
               resp |-> NoResponse, replies |-> <<>>, requests |-> <<>>, exc |-> "none"]
    /\ UNCHANGED <<user_states, sincePress, seen, queue, running>>

(***************************************************************************)
(* search_handler line by line.  The dispatcher takes text messages from   *)
(* the update queue in order and calls search_handler; a call in progress  *)
(* is a record with the line it is about to execute (pc) and its locals.   *)
(***************************************************************************)
MaxQueue == 2

\* bot.py:228, 230, 233-234 and 236-245 in another order: the fetch before
\* the del
search_handler_lines_fetch_first == <<"l228", "l234", "l230", "l236">>

\* the lines at which a call changes or reads shared state, in program
\* order: the mode test (228), the del (230), the fetch (233-234), the
\* filtering and the reply (236-245)
search_handler_lines == <<"l228", "l230", "l234", "l236">>

NextLine(pc) ==
    LET i == CHOOSE k \in DOMAIN search_handler_lines : search_handler_lines[k] = pc
    IN  IF i = Len(search_handler_lines) THEN "done" ELSE search_handler_lines[i + 1]

\* handlers run in worker threads (run_async): the dispatcher never waits
CanDispatchAsync(calls) == TRUE

\* bot.py:251-253 register the handlers without run_async, so the dispatcher
\* calls a handler only after the one before has returned
CanDispatch(calls) == calls = <<>>

Remove(seq, i) == SubSeq(seq, 1, i - 1) \o SubSeq(seq, i + 1, Len(seq))

\* how many updates of user u are waiting or being handled
Unhandled(u) ==
    Cardinality({i \in DOMAIN queue : queue[i].user = u})
        + Cardinality({i \in DOMAIN running : running[i].user = u})

\* the record of a finished call c of search_handler
Finished(c, replies, requests, exc) ==
    [op |-> "text", user |-> c.user, data |-> <<c.text>>, store_before |-> c.store_before,
     since |-> c.since, entered |-> <<>>,
     awaiting |-> c.awaiting, behind |-> c.behind,
     resp |-> c.resp, replies |-> replies, requests |-> requests, exc |-> exc]

\* a text message arrives; awaiting and behind note the user's mode and the
\* user's unhandled messages at that moment
Receive(u, text) ==
    /\ Len(queue) < MaxQueue
    /\ queue' = Append(queue, [user |-> u, text |-> text,
                                awaiting |-> IsAwaiting(user_states, u),
                                behind |-> Unhandled(u)])
    /\ UNCHANGED <<user_states, clock, out, sincePress, seen, running>>

\* the dispatcher calls search_handler for the oldest message   bot.py:253
Dispatch ==
    /\ queue # <<>>
    /\ CanDispatch(running)
    /\ \E m \in {Head(queue)} :
           /\ running' = Append(running,
                  [user |-> m.user, text |-> m.text, pc |-> search_handler_lines[1],
                   store_before |-> user_states, since |-> sincePress[m.user],
                   awaiting |-> m.awaiting, behind |-> m.behind,
                   resp |-> NoResponse, f |-> [ret |-> <<>>, exc |-> "none", requests |-> <<>>]])
           /\ sincePress' = [sincePress EXCEPT ![m.user] =
                                 IF @ = "never" THEN "never"
                                 ELSE IF @ \in {"pressed", "repressed"} THEN "once" ELSE "more"]
    /\ queue' = Tail(queue)
    /\ UNCHANGED <<user_states, clock, out, seen>>

\* bot.py:228: if user_states.get(user_id) == "awaiting_search"
Line228(i) ==
    /\ running[i].pc = "l228"
    /\ IF IsAwaiting(user_states, running[i].user)
       THEN /\ running' = [running EXCEPT ![i].pc = NextLine("l228")]
            /\ UNCHANGED out
       ELSE /\ running' = Remove(running, i)
            /\ out' = Finished(running[i], <<>>, running[i].f.requests, "none")
    /\ UNCHANGED <<user_states, clock, sincePress, seen, queue>>

\* bot.py:230: del user_states[user_id], KeyError when the key is gone
Line230(i) ==
    /\ running[i].pc = "l230"
    /\ IF running[i].user \in DOMAIN user_states
       THEN /\ user_states' = DictDel(user_states, running[i].user)
            /\ running' = [running EXCEPT ![i].pc = NextLine("l230")]
            /\ UNCHANGED out
       ELSE /\ running' = Remove(running, i)
            /\ out' = Finished(running[i], <<>>, running[i].f.requests, "KeyError")
            /\ UNCHANGED user_states
    /\ UNCHANGED <<clock, sincePress, seen, queue>>

\* bot.py:233-234: the fetch for today's date
Line234(i, resp) ==
    /\ running[i].pc = "l234"
    /\ running' = [running EXCEPT ![i].pc = NextLine("l234"),
                                   ![i].resp = resp,
                                   ![i].f = fetch_events_for_date(search_date(clock), resp)]
    /\ UNCHANGED <<user_states, clock, out, sincePress, seen, queue>>

\* bot.py:236-245: the filtering and the reply
Line236(i) ==
    /\ running[i].pc = "l236"
    /\ \E r \in {search_reply(user_states, Lower(running[i].text), running[i].f)} :
           out' = Finished(running[i], r.replies, r.requests, r.exc)
    /\ running' = Remove(running, i)
    /\ UNCHANGED <<user_states, clock, sincePress, seen, queue>>

(***************************************************************************)
(* Inputs                                                                  *)
(***************************************************************************)
S_minus1 == <<"-", "1">>
S_plus1  == <<"1">>
S_zero   == <<"0">>
S_noop   == <<"n", "o", "o", "p">>

ClockDays == {IsoFormat(FromOrdinal(ClockStart + n)) : n \in 0..(MaxTicks \div 2)}

NavDates ==
    {IsoFormat(FromOrdinal(n)) : n \in (ClockStart - NavRadius)..(ClockStart + NavRadius)}

\* the first two and the last two dates datetime can hold
EdgeDates == {IsoFormat(FromOrdinal(n)) : n \in {1, 2, MaxOrdinal - 1, MaxOrdinal}}

\* payloads the keyboards of bot.py:194-201 carry
PagingPayloads ==
    {DatePayload(d, k) : d \in NavDates \cup EdgeDates, k \in {S_minus1, S_plus1}}
        \cup {DatePayload(d, S_zero) : d \in ClockDays}

NavPayloads == PagingPayloads \cup {S_search}

DialogPayloads ==
    {S_search, S_noop} \cup
        {DatePayload(IsoFormat(FromOrdinal(ClockStart)), k) : k \in {S_minus1, S_zero, S_plus1}}

Texts == {<<"b", "a", "r">>, <<"D", "E", "N">>}

S_notadate == <<"n", "o", "t", "-", "a", "-", "d", "a", "t", "e">>

S_day == IsoFormat(FromOrdinal(ClockStart))

\* callback payloads no keyboard of bot.py:194-201 carries
RouterPayloads ==
    {S_noop,
     <<"S", "e", "a", "r", "c", "h">>,
     S_date,
     S_date \o <<":">>,
     S_date \o <<":">> \o S_day,
     DatePayload(S_day, <<"1", ":", "2">>),
     DatePayload(S_notadate, S_plus1),
     DatePayload(<<"2", "0", "2", "4", "-", "0", "2", "-", "3", "0">>, S_plus1),
     DatePayload(S_day, <<"x">>),
     DatePayload(S_day, <<>>)}

DialogArgs == {<<>>, <<S_today>>, <<S_notadate>>}

ArgLists ==
    {<<>>, <<S_today>>, <<<<"T", "D">>>>, <<S_tomorrow>>, <<S_tm>>, <<S_tmr>>, <<S_tomo>>,
     <<S_notadate>>,
     <<<<"2", "0", "2", "4", "-", "0", "2", "-", "2", "9">>>>,
     <<<<"2", "9", "-", "0", "2", "-", "2", "0", "2", "4">>>>,
     <<<<"2", "9", ".", "0", "2", ".", "2", "0", "2", "4">>>>,
     <<<<"2", "0", "2", "3", "-", "0", "2", "-", "2", "9">>>>,
     <<<<"2", "0", "2", "4", "-", "3", "-", "1">>>>,
     <<<<"1", ".", "3", ".", "2", "0", "2", "4">>>>,
     <<<<"2", "0", "2", "4", "-", "0", "3", "-">>, <<"1">>>>,
     <<<<"3", "1", ".", "1", "2", ".", "2", "4">>>>,
     <<<<"2", "0", "2", "4", ".", "0", "2", ".", "2", "9">>>>}

\* listings around the limit of bot.py:160 (the query asks for up to 20)
RenderLengths == {0, 1, 9, 10, 11, 12}

RenderResponses ==
    {RespOk(Events(n)) : n \in RenderLengths} \cup {RespOk(<<EvRave, EvNullVenue>>)}

ConcResponses == {RespOk(<<EvRave, EvJam>>), RespOk(<<EvRave, EvNullVenue>>), RespStatus500}

DialogResponses == {RespOk(<<EvRave, EvJam>>), RespOk(<<EvRave, EvNullVenue>>), RespTransport}

NavResponses == {RespEmpty, RespOk(<<EvRave, EvNullVenue>>)}

(***************************************************************************)
(* Specifications.  The upstream's answer is drawn only for an update that *)
(* issues a request.                                                       *)
(***************************************************************************)
UpstreamIf(requested, responses) == IF requested THEN responses ELSE {NoResponse}

PagingOk(data) == StartsWith(data, S_date \o <<":">>) /\ ResolveExc(data) = "none"

ArgsOk(args) == args = <<>> \/ resolve_date(Lower(Strip(Join(args))), clock).ok

\* the dialog: every handler, two users
Next ==
    \/ \E u \in Users, resp \in DialogResponses : DoStart(u, resp)
    \/ \E u \in Users, data \in DialogPayloads :
           \E resp \in UpstreamIf(PagingOk(data), DialogResponses) :
               DoButton(u, data, resp, FALSE)
    \/ \E u \in Users, text \in Texts :
           \E resp \in UpstreamIf(IsAwaiting(user_states, u), DialogResponses) :
               DoText(u, text, resp)
    \/ \E u \in Users, args \in DialogArgs :
           \E resp \in UpstreamIf(ArgsOk(args), DialogResponses) : DoEvents(u, args, resp)
    \/ Tick

Spec == Init /\ [][Next]_vars

\* day navigation by one user: every payload a keyboard can carry, pressed
\* fresh, stale or repeatedly
NextNav ==
    \/ \E resp \in NavResponses : DoStart(1001, resp)
    \/ \E data \in NavPayloads :
           \E resp \in UpstreamIf(PagingOk(data), NavResponses) :
               DoButton(1001, data, resp, TRUE)
    \/ Tick

SpecNav == Init /\ [][NextNav]_vars

\* the command entry path: every argument form, every upstream response
NextCmd ==
    \/ \E args \in ArgLists :
           \E resp \in UpstreamIf(ArgsOk(args), Responses) : DoEvents(1001, args, resp)
    \/ DoButton(1001, S_search, NoResponse, FALSE)
    \/ Tick

SpecCmd == Init /\ [][NextCmd]_vars

\* the fetch: every handler that fetches, against every upstream response
NextFetch ==
    \/ \E resp \in Responses : DoStart(1001, resp)
    \/ \E data \in {S_search, DatePayload(IsoFormat(FromOrdinal(ClockStart)), S_plus1)} :
           \E resp \in UpstreamIf(PagingOk(data), Responses) :
               DoButton(1001, data, resp, FALSE)
    \/ \E text \in Texts :
           \E resp \in UpstreamIf(IsAwaiting(user_states, 1001), Responses) :
               DoText(1001, text, resp)
    \/ \E args \in {<<>>, <<S_tomorrow>>} : \E resp \in Responses : DoEvents(1001, args, resp)
    \/ Tick

SpecFetch == Init /\ [][NextFetch]_vars

\* day renderings: every listing length around the limit, on both paths
NextRender ==
    \/ \E resp \in RenderResponses : DoStart(1001, resp)
    \/ \E data \in DialogPayloads :
           \E resp \in UpstreamIf(PagingOk(data), RenderResponses) :
               DoButton(1001, data, resp, FALSE)
    \/ \E args \in {<<>>, <<S_tomorrow>>} :
           \E resp \in RenderResponses : DoEvents(1001, args, resp)
    \/ Tick

SpecRender == Init /\ [][NextRender]_vars

\* the router: payloads of the keyboards and payloads of no keyboard
NextRouter ==
    \/ \E u \in Users, resp \in NavResponses : DoStart(u, resp)
    \/ \E u \in Users, data \in RouterPayloads \cup {S_search, DatePayload(S_day, S_plus1)} :
           \E resp \in UpstreamIf(PagingOk(data), NavResponses) :
               DoButton(u, data, resp, FALSE)
    \/ Tick

SpecRouter == Init /\ [][NextRouter]_vars

\* the search sub-dialog of one user, with queued messages and search_handler
\* advancing line by line
NextConc ==
    \/ CanDispatch(running) /\ DoButton(1001, S_search, NoResponse, FALSE)
    \/ \E text \in Texts : Receive(1001, text)
    \/ Dispatch
    \/ \E i \in DOMAIN running : Line228(i)
    \/ \E i \in DOMAIN running : Line230(i)
    \/ \E i \in DOMAIN running, resp \in ConcResponses : Line234(i, resp)
    \/ \E i \in DOMAIN running : Line236(i)

SpecConc == Init /\ [][NextConc]_vars

(***************************************************************************)
(* Properties                                                              *)
(***************************************************************************)
Prompt == Message("Please enter the event name or club:", <<>>, <<>>, <<>>)

\* C1: after a search press, the user's first free-text message takes the
\* search branch (it issues the one fetch) and leaves the user Idle; a later
\* free-text message with no search press in between issues no fetch and
\* sends no reply.
C1_SearchIsSingleShot ==
    out.op = "text" =>
        /\ out.since \in {"pressed", "repressed"} =>
               Len(out.requests) = 1 /\ out.user \notin DOMAIN user_states
        /\ out.since \in {"once", "more"} =>
               out.requests = <<>> /\ out.replies = <<>>

\* a second free-text message after one press has been handled
C1_Witness ==
    out.op = "text" /\ out.since = "once" /\ out.requests = <<>> /\ out.replies = <<>>

\* C2: the mode store holds entries for user identities only, every entry
\* means AwaitingSearchTerm, and after a free-text message of a user, however
\* many search presses preceded it, that user has no entry.
C2_OneEntryPerUser ==
    /\ DOMAIN user_states \subseteq Users
    /\ \A u \in DOMAIN user_states : user_states[u] = "awaiting_search"
    /\ out.op = "text" => out.user \notin DOMAIN user_states

\* one free-text message after several presses in a row, another user pending
C2_Witness ==
    /\ out.op = "text" /\ out.since = "repressed"
    /\ out.user \notin DOMAIN user_states
    /\ DOMAIN user_states # {}

\* C3: a search press, from Idle or from AwaitingSearchTerm, leaves the user
\* AwaitingSearchTerm, answers with the prompt and fetches nothing.
C3_SearchPressBegins ==
    out.op = "button" /\ out.data = <<S_search>> =>
        /\ out.user \in DOMAIN user_states
        /\ user_states[out.user] = "awaiting_search"
        /\ out.replies = <<Prompt>>
        /\ out.requests = <<>>
        /\ out.exc = "none"

\* a search press by a user who was already AwaitingSearchTerm
C3_Witness ==
    /\ out.op = "button" /\ out.data = <<S_search>>
    /\ out.user \in DOMAIN out.store_before
    /\ out.user \in DOMAIN user_states

\* C4: a paging press leaves the mode of every user as it was.
C4_PagingKeepsModes == IsPaging(out) => user_states = out.store_before

\* a day view paged by a user who is AwaitingSearchTerm before and after
C4_Witness ==
    /\ IsPaging(out) /\ Rendered(out)
    /\ out.user \in DOMAIN out.store_before
    /\ out.user \in DOMAIN user_states

\* C5: a free-text message of an Idle user changes no mode, fetches nothing
\* and sends nothing.
C5_IdleTextIgnored ==
    out.op = "text" /\ out.user \notin DOMAIN out.store_before =>
        /\ user_states = out.store_before
        /\ out.requests = <<>>
        /\ out.replies = <<>>
        /\ out.exc = "none"

\* an Idle user's message while another user is AwaitingSearchTerm
C5_Witness ==
    /\ out.op = "text" /\ out.user \notin DOMAIN out.store_before
    /\ DOMAIN user_states # {}

\* C6: a paging press shows the date an earlier press of the same payload
\* showed, whatever was handled in between.
C6_DateFromPayloadAlone ==
    IsPaging(out) /\ Rendered(out) /\ seen.data = out.data[1] =>
        ShownDate(out) = seen.date

\* a Today button pressed again after the day has changed
C6_Witness ==
    /\ IsPaging(out) /\ Rendered(out) /\ seen.data = out.data[1]
    /\ Split(out.data[1], ":")[3] = S_zero
    /\ ShownDate(out) = seen.date
    /\ ShownDate(out) # IsoFormat(UtcToday(clock))

\* the payloads of the Previous Day and Next Day buttons on the view of date_str
PrevPayload(date_str) == keyboard(date_str, clock)[1].callback_data
NextPayload(date_str) == keyboard(date_str, clock)[3].callback_data

\* the date button_handler shows for a payload, <<>> when it raises
Resolved(data) == IF ResolveExc(data) = "none" THEN new_date(data) ELSE <<>>

NextThenPrev(date_str) ==
    LET d1 == Resolved(NextPayload(date_str))
    IN  d1 # <<>> /\ Resolved(PrevPayload(d1)) = date_str

PrevThenNext(date_str) ==
    LET d1 == Resolved(PrevPayload(date_str))
    IN  d1 # <<>> /\ Resolved(NextPayload(d1)) = date_str

FirstDate == IsoFormat(<<MINYEAR, 1, 1>>)
LastDate  == IsoFormat(<<MAXYEAR, 12, 31>>)

\* C7 as stated: from every day view shown, Next Day then Previous Day shows
\* the same date again, and so does Previous Day then Next Day.
C7_RoundTripEveryDate ==
    Rendered(out) => NextThenPrev(ShownDate(out)) /\ PrevThenNext(ShownDate(out))

\* C7 amended: Next Day then Previous Day returns to every date but the last
\* one datetime can hold (9999-12-31), and Previous Day then Next Day to every
\* date but the first (0001-01-01).
C7_RoundTripInsideRange ==
    Rendered(out) =>
        /\ ShownDate(out) # LastDate => NextThenPrev(ShownDate(out))
        /\ ShownDate(out) # FirstDate => PrevThenNext(ShownDate(out))

\* a round trip carried out: the earlier press was the Next Day button of the
\* view of a date, this press is the Previous Day button of the view it
\* produced, and the first date is shown again
C7_Witness ==
    /\ IsPaging(out) /\ Rendered(out)
    /\ seen.data = NextPayload(ShownDate(out))
    /\ out.data[1] = PrevPayload(seen.date)
    /\ seen.date # ShownDate(out)

\* the handler of the last update run again on another upstream response
Rerun(o, resp) ==
    IF o.op = "start" THEN start(o.store_before, resp, clock)
    ELSE IF o.op = "button" THEN button_handler(o.store_before, o.user, o.data[1], resp, clock)
    ELSE IF o.op = "text" THEN search_handler(o.store_before, o.user, o.data[1], resp, clock)
    ELSE events_command(o.store_before, o.data, resp, clock)

\* C8: on a non-200 status, a transport failure or a body that cannot be
\* parsed, fetch_events_for_date returns the empty list without raising, and
\* the handler ends as it does on a day with no events.
C8_FetchFailsSoft ==
    out.requests # <<>> /\ out.resp \in FailedResponses =>
        /\ fetch_events_for_date(out.requests[1], out.resp).ret = <<>>
        /\ fetch_events_for_date(out.requests[1], out.resp).exc = "none"
        /\ out.exc = "none"
        /\ out.replies = Rerun(out, RespEmpty).replies
        /\ user_states = Rerun(out, RespEmpty).user_states

\* a search that met an unparseable body and answered "no matching events"
C8_Witness ==
    /\ out.op = "text" /\ out.resp = RespUnparseable
    /\ out.replies # <<>> /\ out.exc = "none"

S_leapday == <<"2", "0", "2", "4", "-", "0", "2", "-", "2", "9">>

\* the argument of the last /events command as events_command reads it
DateInput == Lower(Strip(Join(out.data)))

\* C9: an argument that is no keyword and parses under none of the three
\* formats gets the usage hint as the only reply and no fetch; one that parses
\* is fetched for the date of the first format that parses it (so the three
\* spellings of 29 February 2024 all fetch 2024-02-29).
C9_ArgumentParsing ==
    out.op = "events" /\ out.data # <<>> /\ DateInput \notin TodayWords \cup TomorrowWords =>
        LET ok == {i \in 1..3 : StrptimeOk(DateInput, DateFormats[i])}
        IN  /\ ok = {} => out.replies = <<UsageHint>> /\ out.requests = <<>>
            /\ ok # {} =>
                   LET first == CHOOSE i \in ok : \A j \in ok : i <= j
                   IN  out.requests = <<IsoFormat(StrptimeDate(DateInput, DateFormats[first]))>>
            /\ DateInput \in {S_leapday, <<"2", "9", "-", "0", "2", "-", "2", "0", "2", "4">>, <<"2", "9", ".", "0", "2", ".", "2", "0", "2", "4">>} =>
                   out.requests = <<S_leapday>>
            /\ DateInput = S_notadate => out.replies = <<UsageHint>> /\ out.requests = <<>>

\* DD.MM.YYYY resolved by the third format
C9_Witness ==
    /\ out.op = "events" /\ out.data = <<<<"2", "9", ".", "0", "2", ".", "2", "0", "2", "4">>>>
    /\ out.requests = <<S_leapday>>

\* C10: for /events today with no events from upstream, a reply is exactly
\* "No events found for that date." and nothing is sent after it; the only
\* message before it is the "Searching events ..." acknowledgement.
C10_EventsTodayEmpty ==
    /\ out.op = "events" /\ DateInput = S_today
    /\ out.resp \in {RespEmpty} \cup FailedResponses
    => /\ out.replies = <<Searching(IsoFormat(BerlinToday(clock))), no_events_reply>>
       /\ out.replies[Len(out.replies)].fmt = "No events found for that date."
       /\ out.replies[Len(out.replies)].args = <<>>

\* /events today answered for an empty day
C10_Witness ==
    /\ out.op = "events" /\ out.data = <<S_today>> /\ out.resp = RespEmpty
    /\ Len(out.replies) = 2

\* the events the upstream listed for the update handled last
Fetched(o) == [i \in DOMAIN o.resp.listings |-> o.resp.listings[i].event]

Min(a, b) == IF a < b THEN a ELSE b

\* the event blocks of a day rendering, each reduced to the title it shows:
\* the lines of the day view, or the messages after the acknowledgement
BlockTitles(o) ==
    IF o.op = "events"
    THEN [i \in 1..(Len(o.replies) - 1) |-> o.replies[i + 1].args[1]]
    ELSE IF o.replies = <<>> THEN <<>>
    ELSE [i \in DOMAIN o.replies[1].items |-> o.replies[1].items[i][1]]

IsDayRendering(o) ==
    /\ o.op = "start" \/ o.op = "events" \/ IsPaging(o)
    /\ o.requests # <<>>
    /\ Fetched(o) # <<>>

\* C11: a day rendering of n fetched events, by the events command or by the
\* paged day view, shows min(n, 10) event blocks in upstream order.
C11_TenBlocksInOrder ==
    IsDayRendering(out) =>
        LET events == Fetched(out)
            k == Min(Len(events), 10)
        IN  /\ out.exc = "none"
            /\ BlockTitles(out) = [i \in 1..k |-> events[i].title]

\* a free-text message that was consumed as a search input
IsConsumed(o) == o.op = "text" /\ o.requests # <<>>

\* the titles of the fetched events whose title or venue name contains q,
\* whatever the case of the letters; a null venue is matched on the title
Hits(events, q) ==
    LET hit(ev) == \/ Contains(Lower(ev.title), Lower(q))
                   \/ ev.venue # <<>> /\ Contains(Lower(ev.venue[1]), Lower(q))
        found == SelectSeq(events, hit)
    IN  [i \in DOMAIN found |-> found[i].title]

\* C12: a consumed search input is answered with exactly the fetched events
\* whose title or venue name contains the query, case-insensitively and in
\* upstream order, and an event with a null venue does not make it fail.
C12_SearchMatches ==
    IsConsumed(out) =>
        /\ out.exc = "none"
        /\ Len(out.replies) = 1
        /\ BlockTitles(out) = Hits(Fetched(out), out.data[1])

\* C13 as stated: a consumed search input is fetched for the date of the day
\* view the search was entered from.
C13_FetchesViewedDate ==
    IsConsumed(out) /\ out.entered # <<>> => out.requests = <<out.entered>>

\* C13 amended: a consumed search input is fetched for the current UTC date
\* at the time the message is handled, whatever day view the search was
\* entered from.
C13_FetchesUtcToday ==
    IsConsumed(out) => out.requests = <<IsoFormat(UtcToday(clock))>>

\* a search entered from the view of another day than today, and consumed
C13_Witness ==
    /\ IsConsumed(out) /\ out.entered # <<>>
    /\ out.entered # IsoFormat(UtcToday(clock))
    /\ out.requests = <<IsoFormat(UtcToday(clock))>>

\* a payload the router has a row for: the word search, or date:<ISO
\* date>:<integer offset>
IsRouted(data) ==
    \/ data = S_search
    \/ LET f == Split(data, ":")
       IN  Len(f) = 3 /\ f[1] = S_date /\ IsoDateOk(f[2]) /\ IntOk(f[3])

\* C14: a button press whose payload the router has no row for raises no
\* error, leaves the mode store as it was and issues no fetch.
C14_UnroutedIsNoOp ==
    out.op = "button" /\ ~IsRouted(out.data[1]) =>
        /\ out.exc = "none"
        /\ user_states = out.store_before
        /\ out.requests = <<>>

C16_CommandKeepsModes == out.op = "events" => user_states = out.store_before

\* a command whose fetch failed, by a user who is AwaitingSearchTerm before
\* and after it
C16_Witness ==
    /\ out.op = "events" /\ out.resp \in FailedResponses
    /\ out.user \in DOMAIN out.store_before
    /\ IsAwaiting(user_states, out.user)

\* C17: a call of search_handler that has reached the fetch or gone past it
\* finds its user Idle, and after a consumed search input the user is Idle
\* whatever the upstream answered and however the filtering ended.
C17_ClearedBeforeFetch ==
    /\ \A i \in DOMAIN running :
           running[i].pc \in {"l234", "l236"} => ~IsAwaiting(user_states, running[i].user)
    /\ \A i \in DOMAIN running :
           running[i].f.requests # <<>> => ~IsAwaiting(user_states, running[i].user)
    /\ IsConsumed(out) => ~IsAwaiting(user_states, out.user)

\* a search input whose filtering failed on a null venue, the user Idle
C17_Witness ==
    /\ IsConsumed(out) /\ out.exc = "TypeError"
    /\ out.user \in DOMAIN out.store_before
    /\ ~IsAwaiting(user_states, out.user)

\* the date field of a paging payload
PayloadDate(data) == Split(data, ":")[2]

\* the paging buttons of a keyboard
PagingButtons(markup) ==
    {i \in DOMAIN markup : StartsWith(markup[i].callback_data, S_date \o <<":">>)}

\* the day before and the day after the date d names, <<>> past either end
DayBefore(d) ==
    IF AddDaysOk(FromIsoFormat(d), -1) THEN IsoFormat(AddDays(FromIsoFormat(d), -1)) ELSE <<>>

DayAfter(d) ==
    IF AddDaysOk(FromIsoFormat(d), 1) THEN IsoFormat(AddDays(FromIsoFormat(d), 1)) ELSE <<>>

\* a press of payload data, whoever presses and whatever the upstream
\* answers, fetches the view of date target and shows no other date
PressShows(data, target) ==
    \A resp \in NavResponses :
        LET r == button_handler(user_states, out.user, data, resp, clock)
        IN  /\ r.requests = <<target>>
            /\ r.replies # <<>> => r.replies[1].args[1] = target

\* C18 as stated: a day view of d offers three paging buttons whose payloads
\* carry the dates d-1, today and d+1, each the date shown after the press.
C18_PayloadCarriesTarget ==
    Rendered(out) =>
        LET kb == out.replies[1].markup
            d == ShownDate(out)
        IN  /\ PagingButtons(kb) = {1, 2, 3}
            /\ PayloadDate(kb[1].callback_data) = DayBefore(d)
            /\ PayloadDate(kb[2].callback_data) = IsoFormat(UtcToday(clock))
            /\ PayloadDate(kb[3].callback_data) = DayAfter(d)
            /\ \A i \in 1..3 :
                   PressShows(kb[i].callback_data, PayloadDate(kb[i].callback_data))

\* C18 amended: the three paging payloads carry the date d of the view with
\* the offsets -1 and 1, and the date of rendering with the offset 0; a press
\* resolves payload date plus offset, so it fetches the view of d-1 (d not
\* the first date), of the day of rendering, and of d+1 (d not the last).
C18_PayloadCarriesDateAndOffset ==
    Rendered(out) =>
        LET kb == out.replies[1].markup
            d == ShownDate(out)
            today == IsoFormat(UtcToday(clock))
        IN  /\ PagingButtons(kb) = {1, 2, 3}
            /\ Split(kb[1].callback_data, ":") = <<S_date, d, S_minus1>>
            /\ Split(kb[2].callback_data, ":") = <<S_date, today, S_zero>>
            /\ Split(kb[3].callback_data, ":") = <<S_date, d, S_plus1>>
            /\ d # FirstDate => PressShows(kb[1].callback_data, DayBefore(d))
            /\ PressShows(kb[2].callback_data, today)
            /\ d # LastDate => PressShows(kb[3].callback_data, DayAfter(d))

\* a Previous Day press that showed the day before the date its payload
\* carries, on a view that is not today's
C18_Witness ==
    /\ IsPaging(out) /\ Rendered(out)
    /\ Split(out.data[1], ":")[3] = S_minus1
    /\ ShownDate(out) = DayBefore(PayloadDate(out.data[1]))
    /\ ShownDate(out) # IsoFormat(UtcToday(clock))

\* the update o calls fetch_events_for_date: a day view is asked for, a
\* command resolved its date, or a search input is consumed
Fetches(o) ==
    \/ o.op = "start"
    \/ IsPaging(o) /\ ResolveExc(o.data[1]) = "none"
    \/ o.op = "events" /\ (o.data = <<>> \/ resolve_date(Lower(Strip(Join(o.data))), clock).ok)
    \/ o.op = "text" /\ IsAwaiting(o.store_before, o.user)

\* C19: an update that calls fetch_events_for_date issues exactly one
\* request, whatever the upstream answers and also when the same date was
\* fetched before; any other update issues none.
C19_OneRequestPerFetch ==
    /\ out.op \in {"start", "button", "text", "events"} =>
           Len(out.requests) = (IF Fetches(out) THEN 1 ELSE 0)
    /\ out.requests # <<>> =>
           \A resp \in Responses :
               Len(fetch_events_for_date(out.requests[1], resp).requests) = 1

\* a search input fetching the date that the day view the search was entered
\* from had fetched, upstream failing
C19_Witness ==
    /\ IsConsumed(out) /\ out.entered # <<>>
    /\ out.requests = <<out.entered>>
    /\ out.resp \in FailedResponses

\* C20: an update of one user leaves the mode of every other user as it was.
C20_OtherUsersUntouched ==
    out.op \in {"start", "button", "text", "events"} =>
        \A v \in Users \ {out.user} :
            IsAwaiting(user_states, v) <=> IsAwaiting(out.store_before, v)

\* a search input of one user consumed while the other user is, and stays,
\* AwaitingSearchTerm
C20_Witness ==
    /\ IsConsumed(out)
    /\ \E v \in Users \ {out.user} :
           IsAwaiting(out.store_before, v) /\ IsAwaiting(user_states, v)

=============================================================================
